---- MODULE Spec2Model ----
(***************************************************************************)
(* A model of libopdis' data model (model.c / model.h): Instruction and    *)
(* Operand objects living in a C heap.  Every malloc'd block is a heap     *)
(* cell, pointers are heap addresses, strings are byte arrays, and each    *)
(* library call is one action that runs the whole function.                *)
(***************************************************************************)
EXTENDS Integers, Sequences, FiniteSets, TLC

(* ------------------------------ bounds --------------------------------- *)
\* number of heap addresses the allocator can hand out (never reused)
MaxBlocks == 16
\* largest operand count passed to opdis_insn_alloc / opdis_insn_alloc_fixed
MaxOperands == 2
\* largest small buffer capacity passed to the *_alloc_fixed functions
MaxCap == 3
\* longest ordinary text handed to a string mutator
MaxLen == 2
\* number of library calls in a run
MaxCalls == 6
\* number of opdis_insn_add_prefix / opdis_insn_add_comment calls in a run
MaxAppends == 3

(* --------------------------- program constants ------------------------- *)
NULL == 0
\* characters: the terminator, ' ' and ';'
NUL == 0
SP == 1
SEMI == 2
\* content of storage that realloc hands out uninitialised
JUNK == 255
\* unsigned char holds values modulo 256 (ascii_sz, mnemonic_sz, fixed_size)
UCHAR_MOD == 256
\* stands for 2^32 / 2^64, the modulus of unsigned int and size_t arithmetic:
\* larger than every buffer of the model (the model checker's integers have
\* 32 bits)
HUGE == 1000000
\* enum opdis_insn_decode_t: the bits of status
opdis_decode_invalid == 0
opdis_decode_basic == 1
opdis_decode_mnem == 2
opdis_decode_ops == 4
opdis_decode_mnem_flags == 8
opdis_decode_op_flags == 16
\* enum opdis_insn_cat_t: the categories whose flags the flags union holds,
\* and the unknown one
opdis_insn_cat_unknown == 0
opdis_insn_cat_cflow == 1
opdis_insn_cat_stack == 2
opdis_insn_cat_bit == 6
opdis_insn_cat_io == 7
\* enum opdis_cflow_flag_t
opdis_cflow_flag_none == 0
opdis_cflow_flag_call == 1
opdis_cflow_flag_callcc == 2
opdis_cflow_flag_jmp == 4
opdis_cflow_flag_jmpcc == 8
opdis_cflow_flag_ret == 16

\* the letters texts are made of
Letters == {3, 4}
\* the caller's Instruction pointers and Operand pointers
Slot == {1, 2}
OSlot == 1..(MaxOperands + 1)
Addr == 1..MaxBlocks

Min(S) == CHOOSE x \in S : \A y \in S : x <= y
MinOf(a, b) == IF a <= b THEN a ELSE b

(* ------------------------------- state --------------------------------- *)
VARIABLES
  heap,    \* Addr -> block: the C heap
  held,    \* Slot -> the opdis_insn_t * the caller holds (or NULL)
  oheld,   \* OSlot -> the opdis_op_t * the caller holds (or NULL)
  fault,   \* "none", or the memory error the last call ran into
  last,    \* what the last call was and what it returned
  hist,    \* Slot -> what has been done to the Instruction held there
  ohist,   \* OSlot -> what has been done to the Operand held there
  calls    \* number of library calls made so far

vars == <<heap, held, oheld, fault, last, hist, ohist, calls>>

(* ------------------------------- blocks -------------------------------- *)
\* an address never handed out, and a block that was released
NoBlock == [kind |-> "none"]
FreedBlock == [kind |-> "freed"]

\* calloc( 1, sizeof(opdis_insn_t) )
ZeroInsn ==
  [kind |-> "insn", status |-> 0, ascii |-> NULL, offset |-> 0, vma |-> 0,
   size |-> 0, bytes |-> NULL, num_prefixes |-> 0, prefixes |-> NULL,
   mnemonic |-> NULL, category |-> 0, isa |-> 0, flags |-> 0,
   comment |-> NULL, num_operands |-> 0, alloc_operands |-> 0,
   operands |-> NULL, target |-> NULL, dest |-> NULL, src |-> NULL,
   fixed_size |-> 0, ascii_sz |-> 0, mnemonic_sz |-> 0]

\* calloc( 1, sizeof(opdis_op_t) )
ZeroOp ==
  [kind |-> "op", ascii |-> NULL, category |-> 0, flags |-> 0, value |-> 0,
   data_size |-> 0, fixed_size |-> 0, ascii_sz |-> 0]

\* calloc( 1, n ): n zero bytes
ZeroStr(n) == [kind |-> "str", bytes |-> [i \in 1..n |-> NUL]]

\* calloc( n, sizeof(opdis_op_t *) ): n NULL pointers
ZeroArr(n) == [kind |-> "arr", slots |-> [i \in 1..n |-> NULL]]

IsLive(h, p) == p \in Addr /\ h[p].kind \notin {"none", "freed"}

(* ------------------------------ allocator ------------------------------ *)
\* A call runs on a machine m = [h, cnt, fails, fault]: the heap, the number
\* of allocations the call has attempted, the attempts that fail, and the
\* memory error met so far.
Machine(h, fails) == [h |-> h, cnt |-> 0, fails |-> fails, fault |-> "none"]

FreeAddrs(h) == {a \in Addr : h[a].kind = "none"}

\* malloc / calloc: the next unused address, or NULL
Calloc(m, blk) ==
  LET k == m.cnt + 1
  IN IF k \notin m.fails /\ FreeAddrs(m.h) # {}
     THEN LET a == Min(FreeAddrs(m.h))
          IN [m |-> [m EXCEPT !.cnt = k, !.h[a] = blk], p |-> a]
     ELSE [m |-> [m EXCEPT !.cnt = k], p |-> NULL]

\* free(p): releasing a block twice, or one that is not allocated, is a fault
Free(m, p) ==
  IF p = NULL THEN m
  ELSE IF IsLive(m.h, p) THEN [m EXCEPT !.h[p] = FreedBlock]
  ELSE [m EXCEPT !.fault = "badfree"]

\* i->field = v
SetField(m, p, f, v) == [m EXCEPT !.h[p][f] = v]

(* ------------------------------- strings ------------------------------- *)
\* a block holds a C string when a terminator lies inside it
HasNul(b) == \E i \in 1..Len(b) : b[i] = NUL

\* strlen: the number of bytes before the first terminator (the block's
\* length when the terminator is missing: the read runs off the block)
StrLen(b) ==
  IF HasNul(b) THEN Min({i \in 1..Len(b) : b[i] = NUL}) - 1 ELSE Len(b)

\* the text of the C string in a block
StrOf(b) == SubSeq(b, 1, StrLen(b))

\* strdup: a new block exactly as large as the string and its terminator
strdup(m, p) ==
  IF ~IsLive(m.h, p) THEN [m |-> [m EXCEPT !.fault = "crash"], p |-> NULL]
  ELSE IF ~HasNul(m.h[p].bytes)
  THEN [m |-> [m EXCEPT !.fault = "overread"], p |-> NULL]
  ELSE Calloc(m, [kind |-> "str", bytes |-> Append(StrOf(m.h[p].bytes), NUL)])

\* strdup of a caller's text (a sequence of letters)
strdup_text(m, t) == Calloc(m, [kind |-> "str", bytes |-> Append(t, NUL)])

\* the bytes of block b after writing sequence w at 0-based offset off;
\* bytes that fall outside the block are lost
WriteAt(b, off, w) ==
  [i \in 1..Len(b) |->
     IF i > off /\ i <= off + Len(w) THEN w[i - off] ELSE b[i]]

\* whether writing Len(w) bytes at offset off stays inside block b
Fits(b, off, w) == off + Len(w) <= Len(b)

\* what strncpy( dst, src, n ) writes: min(len, n) characters of src, then
\* terminators up to n bytes in all
StrncpyBytes(t, n, room) ==
  [i \in 1..MinOf(n, room) |-> IF i <= Len(t) THEN t[i] ELSE NUL]

\* what strncat( dst, src, n ) writes after dst's text: at most n characters
\* of src and always a terminator
StrncatBytes(t, n) == Append(SubSeq(t, 1, MinOf(n, Len(t))), NUL)

(* ------------------------------ operands ------------------------------- *)
opdis_op_alloc(m) == Calloc(m, ZeroOp)

opdis_op_alloc_fixed(m, ascii_sz) ==
  LET r1 == opdis_op_alloc(m)
  IN IF r1.p = NULL THEN r1
     ELSE LET m1 == [r1.m EXCEPT !.h[r1.p].fixed_size = 1,
                                 !.h[r1.p].ascii_sz = ascii_sz % UCHAR_MOD]
              r2 == Calloc(m1, ZeroStr(ascii_sz))
          IN IF r2.p = NULL
             THEN [m |-> Free(r2.m, r1.p), p |-> NULL]
             ELSE [m |-> SetField(r2.m, r1.p, "ascii", r2.p), p |-> r1.p]

\* opdis_op_dupe without lines 349-355: the string is not duplicated
opdis_op_dupe_no_ascii(m, op) ==
  LET r1 == opdis_op_alloc(m)
  IN IF r1.p = NULL THEN r1
     ELSE IF ~IsLive(m.h, op)
     THEN [m |-> [r1.m EXCEPT !.fault = "crash"], p |-> NULL]
     ELSE [m |-> [r1.m EXCEPT !.h[r1.p] = [m.h[op] EXCEPT !.ascii = NULL]],
           p |-> r1.p]

opdis_op_dupe(m, op) ==
  LET r1 == opdis_op_alloc(m)
  IN IF r1.p = NULL THEN r1
     ELSE IF ~IsLive(m.h, op)
     THEN [m |-> [r1.m EXCEPT !.fault = "crash"], p |-> NULL]
     ELSE LET \* memcpy( new_op, op, sizeof(opdis_op_t) ); new_op->ascii = NULL
              m1 == [r1.m EXCEPT !.h[r1.p] = [m.h[op] EXCEPT !.ascii = NULL]]
          IN IF m.h[op].ascii = NULL THEN [m |-> m1, p |-> r1.p]
             ELSE LET r2 == strdup(m1, m.h[op].ascii)
                  IN IF r2.p = NULL
                     THEN [m |-> Free(r2.m, r1.p), p |-> NULL]
                     ELSE [m |-> SetField(r2.m, r1.p, "ascii", r2.p),
                           p |-> r1.p]

\* releases the string; the opdis_op_t itself is not released
opdis_op_free(m, op) ==
  IF op = NULL THEN m
  ELSE IF ~IsLive(m.h, op) THEN [m EXCEPT !.fault = "crash"]
  ELSE IF m.h[op].ascii # NULL THEN Free(m, m.h[op].ascii)
  ELSE m

(* ---------------------------- instructions ----------------------------- *)
\* opdis_insn_alloc without line 33: alloc_operands is left 0
opdis_insn_alloc_no_count(m, num_operands) ==
  LET r1 == Calloc(m, ZeroInsn)
  IN IF r1.p = NULL THEN r1
     ELSE IF num_operands = 0 THEN r1
     ELSE LET r2 == Calloc(r1.m, ZeroArr(num_operands))
          IN IF r2.p = NULL
             THEN [m |-> Free(r2.m, r1.p), p |-> NULL]
             ELSE [m |-> SetField(r2.m, r1.p, "operands", r2.p), p |-> r1.p]

opdis_insn_alloc(m, num_operands) ==
  LET r1 == Calloc(m, ZeroInsn)
  IN IF r1.p = NULL THEN r1
     ELSE IF num_operands = 0 THEN r1
     ELSE LET r2 == Calloc(r1.m, ZeroArr(num_operands))
          IN IF r2.p = NULL
             THEN [m |-> Free(r2.m, r1.p), p |-> NULL]
             ELSE [m |-> [r2.m EXCEPT !.h[r1.p].operands = r2.p,
                                      !.h[r1.p].alloc_operands = num_operands],
                   p |-> r1.p]

\* the loop of opdis_insn_free over the first num_operands slots, from i on
RECURSIVE FreeOperands(_, _, _)
FreeOperands(m, insn, i) ==
  IF i >= m.h[insn].num_operands \/ m.fault # "none" THEN m
  ELSE LET arr == m.h[insn].operands
       IN IF ~IsLive(m.h, arr) THEN [m EXCEPT !.fault = "crash"]
          ELSE IF i + 1 > Len(m.h[arr].slots)
          THEN [m EXCEPT !.fault = "overread"]
          ELSE FreeOperands(opdis_op_free(m, m.h[arr].slots[i + 1]),
                            insn, i + 1)

\* releases ascii, mnemonic, the strings of the first num_operands operands
\* and the opdis_insn_t; prefixes, comment and the operand array are not
\* released
opdis_insn_free(m, insn) ==
  IF insn = NULL THEN m
  ELSE IF ~IsLive(m.h, insn) THEN [m EXCEPT !.fault = "crash"]
  ELSE LET m1 == Free(m, m.h[insn].ascii)
           m2 == Free(m1, m.h[insn].mnemonic)
           m3 == FreeOperands(m2, insn, 0)
       IN Free(m3, insn)

PREFIX_SIZE(mnem_size) == 4 * mnem_size

\* the loop of opdis_insn_alloc_fixed that fills slots i .. num_operands-1
RECURSIVE AllocFixedOperands(_, _, _, _, _)
AllocFixedOperands(m, insn, i, num_operands, op_ascii_sz) ==
  IF i >= num_operands THEN [m |-> m, p |-> insn]
  ELSE LET r == opdis_op_alloc_fixed(m, op_ascii_sz)
           arr == m.h[insn].operands
       IN IF r.p # NULL
          THEN AllocFixedOperands(
                 [r.m EXCEPT !.h[arr].slots[i + 1] = r.p,
                             !.h[insn].alloc_operands = @ + 1],
                 insn, i + 1, num_operands, op_ascii_sz)
          ELSE [m |-> opdis_insn_free(r.m, insn), p |-> NULL]

opdis_insn_alloc_fixed(m, ascii_sz, mnemonic_sz, num_operands, op_ascii_sz) ==
  LET r0 == opdis_insn_alloc(m, num_operands)
  IN IF r0.p = NULL THEN r0
     ELSE
       LET insn == r0.p
           r1 == Calloc(r0.m, ZeroStr(ascii_sz))
           r2 == Calloc(r1.m, ZeroStr(PREFIX_SIZE(mnemonic_sz)))
           r3 == Calloc(r2.m, ZeroStr(mnemonic_sz))
           r4 == Calloc(r3.m, ZeroStr(ascii_sz))
           m4 == [r4.m EXCEPT !.h[insn].ascii = r1.p,
                              !.h[insn].prefixes = r2.p,
                              !.h[insn].mnemonic = r3.p,
                              !.h[insn].comment = r4.p]
       IN IF r1.p = NULL \/ r2.p = NULL \/ r3.p = NULL
          THEN [m |-> opdis_insn_free(m4, insn), p |-> NULL]
          ELSE
            LET r5 == AllocFixedOperands(m4, insn, 0, num_operands,
                                         op_ascii_sz)
            IN IF r5.p = NULL THEN r5
               ELSE [m |-> [r5.m EXCEPT
                              !.h[insn].fixed_size = 1,
                              !.h[insn].ascii_sz = ascii_sz % UCHAR_MOD,
                              !.h[insn].mnemonic_sz = mnemonic_sz % UCHAR_MOD],
                     p |-> insn]

\* the loop of opdis_insn_dupe that duplicates operands i .. of insn
RECURSIVE DupeOperands(_, _, _, _)
DupeOperands(m, insn, new_insn, i) ==
  IF ~(i < m.h[insn].num_operands /\ i < m.h[new_insn].alloc_operands)
  THEN [m |-> m, p |-> new_insn]
  ELSE
    LET arr == m.h[insn].operands
        narr == m.h[new_insn].operands
    IN IF ~IsLive(m.h, arr) \/ ~IsLive(m.h, narr)
       THEN [m |-> [m EXCEPT !.fault = "crash"], p |-> NULL]
       ELSE IF i + 1 > Len(m.h[arr].slots)
       THEN [m |-> [m EXCEPT !.fault = "overread"], p |-> NULL]
       ELSE
         LET r == opdis_op_dupe(m, m.h[arr].slots[i + 1])
         IN IF r.m.fault # "none" THEN [m |-> r.m, p |-> NULL]
            ELSE IF r.p # NULL
            THEN IF i + 1 > Len(r.m.h[narr].slots)
                 THEN [m |-> [r.m EXCEPT !.fault = "overflow"], p |-> NULL]
                 ELSE DupeOperands(
                        [r.m EXCEPT !.h[narr].slots[i + 1] = r.p,
                                    !.h[new_insn].num_operands = @ + 1],
                        insn, new_insn, i + 1)
            ELSE [m |-> opdis_insn_free(r.m, new_insn), p |-> NULL]

\* one of the three strdup steps of opdis_insn_dupe, for field f
DupeString(r, insn, f) ==
  IF r.p = NULL \/ r.m.fault # "none" THEN r
  ELSE IF r.m.h[insn][f] = NULL THEN r
  ELSE LET d == strdup(r.m, r.m.h[insn][f])
       IN IF d.m.fault # "none" THEN [m |-> d.m, p |-> NULL]
          ELSE IF d.p = NULL
          THEN [m |-> opdis_insn_free(d.m, r.p), p |-> NULL]
          ELSE [m |-> IF f = "prefixes"
                      THEN [d.m EXCEPT !.h[r.p].prefixes = d.p,
                                       !.h[r.p].num_prefixes =
                                           d.m.h[insn].num_prefixes]
                      ELSE SetField(d.m, r.p, f, d.p),
                p |-> r.p]

opdis_insn_dupe(m, insn) ==
  LET r0 == opdis_insn_alloc(m, m.h[insn].num_operands)
  IN IF r0.p = NULL THEN r0
     ELSE
       LET new_insn == r0.p
           new_operands == r0.m.h[new_insn].operands
           \* memcpy( new_insn, insn, sizeof(opdis_insn_t) )
           m1 == [r0.m EXCEPT !.h[new_insn] =
                    [m.h[insn] EXCEPT !.ascii = NULL, !.mnemonic = NULL,
                                      !.prefixes = NULL,
                                      !.operands = new_operands]]
           r1 == DupeString([m |-> m1, p |-> new_insn], insn, "ascii")
           r2 == DupeString(r1, insn, "prefixes")
           r3 == DupeString(r2, insn, "mnemonic")
       IN IF r3.p = NULL THEN r3
          ELSE DupeOperands(SetField(r3.m, new_insn, "num_operands", 0),
                            insn, new_insn, 0)

\* i->s[0] = '\0' when s is present
ClearString(m, p) ==
  IF p = NULL THEN m
  ELSE IF ~IsLive(m.h, p) THEN [m EXCEPT !.fault = "crash"]
  ELSE IF Len(m.h[p].bytes) = 0 THEN [m EXCEPT !.fault = "overflow"]
  ELSE [m EXCEPT !.h[p].bytes[1] = NUL]

\* opdis_insn_clear with a fifth store: the comment is emptied as well
opdis_insn_clear_empties_comment(m, i) ==
  IF i = NULL THEN m
  ELSE LET m1 == SetField(m, i, "status", opdis_decode_invalid)
           m2 == ClearString(m1, m.h[i].ascii)
           m3 == SetField(m2, i, "num_prefixes", 0)
           m4 == ClearString(m3, m.h[i].prefixes)
           m5 == ClearString(m4, m.h[i].mnemonic)
           m6 == ClearString(m5, m.h[i].comment)
       IN [m6 EXCEPT !.h[i].num_operands = 0, !.h[i].target = NULL,
                     !.h[i].dest = NULL, !.h[i].src = NULL]

\* opdis_insn_clear without line 142: num_operands is kept
opdis_insn_clear_keeps_operands(m, i) ==
  IF i = NULL THEN m
  ELSE LET m1 == SetField(m, i, "status", opdis_decode_invalid)
           m2 == ClearString(m1, m.h[i].ascii)
           m3 == SetField(m2, i, "num_prefixes", 0)
           m4 == ClearString(m3, m.h[i].prefixes)
           m5 == ClearString(m4, m.h[i].mnemonic)
       IN [m5 EXCEPT !.h[i].target = NULL, !.h[i].dest = NULL,
                     !.h[i].src = NULL]

opdis_insn_clear(m, i) ==
  IF i = NULL THEN m
  ELSE LET m1 == SetField(m, i, "status", opdis_decode_invalid)
           m2 == ClearString(m1, m.h[i].ascii)
           m3 == SetField(m2, i, "num_prefixes", 0)
           m4 == ClearString(m3, m.h[i].prefixes)
           m5 == ClearString(m4, m.h[i].mnemonic)
       IN [m5 EXCEPT !.h[i].num_operands = 0, !.h[i].target = NULL,
                     !.h[i].dest = NULL, !.h[i].src = NULL]

(* ------------------------------- queries ------------------------------- *)
\* opdis_insn_is_branch with a test of status added to line 297
opdis_insn_is_branch_checks_status(h, i) ==
  IF /\ i # NULL /\ h[i].category = opdis_insn_cat_cflow
     /\ (h[i].status \div opdis_decode_mnem_flags) % 2 = 1
  THEN IF \/ h[i].flags = opdis_cflow_flag_call
          \/ h[i].flags = opdis_cflow_flag_callcc
          \/ h[i].flags = opdis_cflow_flag_jmp
          \/ h[i].flags = opdis_cflow_flag_jmpcc
       THEN 1
       ELSE 0
  ELSE 0

\* opdis_insn_is_branch with RET among the flags of line 298
opdis_insn_is_branch_with_ret(h, i) ==
  IF i # NULL /\ h[i].category = opdis_insn_cat_cflow
  THEN IF h[i].flags # opdis_cflow_flag_none THEN 1 ELSE 0
  ELSE 0

\* All CALL and JMP instructions have a branch target
opdis_insn_is_branch(h, i) ==
  IF i # NULL /\ h[i].category = opdis_insn_cat_cflow
  THEN IF \/ h[i].flags = opdis_cflow_flag_call
          \/ h[i].flags = opdis_cflow_flag_callcc
          \/ h[i].flags = opdis_cflow_flag_jmp
          \/ h[i].flags = opdis_cflow_flag_jmpcc
       THEN 1
       ELSE 0
  ELSE 0

\* opdis_insn_fallthrough without the category test of line 311
opdis_insn_fallthrough_any_category(h, i) ==
  IF i # NULL
  THEN IF \/ h[i].flags = opdis_cflow_flag_ret
          \/ h[i].flags = opdis_cflow_flag_jmp
       THEN 0
       ELSE 1
  ELSE 1

\* No fall-through for RET and JMP instructions
opdis_insn_fallthrough(h, i) ==
  IF i # NULL /\ h[i].category = opdis_insn_cat_cflow
  THEN IF \/ h[i].flags = opdis_cflow_flag_ret
          \/ h[i].flags = opdis_cflow_flag_jmp
       THEN 0
       ELSE 1
  ELSE 1

(* --------------------------- string mutators --------------------------- *)
\* unsigned arithmetic: x modulo the width of the type
Wrap(x) == x % HUGE

\* a store that runs off its block: the build either goes on with the bytes
\* outside the block lost (ub = "overflow") or stops (ub = "crash")
Faulted(m0, m1, ub) ==
  IF ub = "crash" THEN [m0 EXCEPT !.fault = "crash"]
  ELSE [m1 EXCEPT !.fault = "overflow"]

\* strncpy( buf, text, n )
strncpy(m, buf, text, n, ub) ==
  IF ~IsLive(m.h, buf) THEN [m EXCEPT !.fault = "crash"]
  ELSE LET b == m.h[buf].bytes
           m1 == [m EXCEPT !.h[buf].bytes =
                    WriteAt(b, 0, StrncpyBytes(text, n, Len(b)))]
       IN IF n <= Len(b) THEN m1 ELSE Faulted(m, m1, ub)

\* strncat( buf, text, n );  strcat is strncat with no limit
strncat(m, buf, text, n, ub) ==
  IF m.fault \in {"crash", "overread", "badfree"} THEN m
  ELSE IF ~IsLive(m.h, buf) THEN [m EXCEPT !.fault = "crash"]
  ELSE LET b == m.h[buf].bytes
           w == StrncatBytes(text, n)
           m1 == [m EXCEPT !.h[buf].bytes = WriteAt(b, StrLen(b), w)]
       IN IF ~HasNul(b) THEN [m EXCEPT !.fault = "overread"]
          ELSE IF Fits(b, StrLen(b), w) THEN m1
          ELSE Faulted(m, m1, ub)

strcat(m, buf, text, ub) == strncat(m, buf, text, HUGE, ub)

\* the first n elements of q, filled up with v
Resize(q, n, v) == [i \in 1..n |-> IF i <= Len(q) THEN q[i] ELSE v]

\* realloc( p, n ) of a block of bytes or of pointers: NULL and nothing
\* changed, or the block resized in place, or a new block and the old one
\* released; storage added is uninitialised
Realloc(m, p, n, field, moves) ==
  LET k == m.cnt + 1
      old == IF p = NULL THEN <<>> ELSE m.h[p][field]
      blk == IF field = "bytes"
             THEN [kind |-> "str", bytes |-> Resize(old, n, JUNK)]
             ELSE [kind |-> "arr", slots |-> Resize(old, n, JUNK)]
      mk == [m EXCEPT !.cnt = k]
  IN IF p # NULL /\ ~IsLive(m.h, p)
     THEN [m |-> [m EXCEPT !.fault = "badfree"], p |-> NULL]
     ELSE IF k \in m.fails THEN [m |-> mk, p |-> NULL]
     ELSE IF (moves \/ p = NULL) /\ FreeAddrs(m.h) # {}
     THEN LET a == Min(FreeAddrs(m.h))
          IN [m |-> Free([mk EXCEPT !.h[a] = blk], p), p |-> a]
     ELSE IF p = NULL THEN [m |-> mk, p |-> NULL]
     ELSE [m |-> [mk EXCEPT !.h[p] = blk], p |-> p]

\* the fixed_size branch of the three setters: strncpy( s, text, sz - 1 )
SetFixed(m, buf, text, sz, ub) == strncpy(m, buf, text, Wrap(sz - 1), ub)

\* the other branch: free the old string, s = strdup( text )
SetDynamic(m, obj, f, text) ==
  LET m1 == Free(m, m.h[obj][f])
      r == strdup_text(m1, text)
  IN SetField(r.m, obj, f, r.p)

\* opdis_insn_set_ascii without lines 176-179: the fixed_size flag is not
\* looked at
opdis_insn_set_ascii_always_dynamic(m, i, ascii, ub) ==
  SetDynamic(m, i, "ascii", ascii)

opdis_insn_set_ascii(m, i, ascii, ub) ==
  IF m.h[i].fixed_size # 0
  THEN SetFixed(m, m.h[i].ascii, ascii, m.h[i].ascii_sz, ub)
  ELSE SetDynamic(m, i, "ascii", ascii)

opdis_insn_set_mnemonic(m, i, mnemonic, ub) ==
  IF m.h[i].fixed_size # 0
  THEN SetFixed(m, m.h[i].mnemonic, mnemonic, m.h[i].mnemonic_sz, ub)
  ELSE SetDynamic(m, i, "mnemonic", mnemonic)

opdis_op_set_ascii(m, op, ascii, ub) ==
  IF m.h[op].fixed_size # 0
  THEN SetFixed(m, m.h[op].ascii, ascii, m.h[op].ascii_sz, ub)
  ELSE SetDynamic(m, op, "ascii", ascii)

\* the fixed_size branch of add_prefix / add_comment on a buffer whose
\* recorded capacity is cap:
\*   size = cap - strlen(s); strncat( s, " ", size - 1 );
\*   strncat( s, text, size - 2 )
AppendFixed(m, buf, text, cap, ub) ==
  IF ~IsLive(m.h, buf) THEN [m EXCEPT !.fault = "crash"]
  ELSE IF ~HasNul(m.h[buf].bytes) THEN [m EXCEPT !.fault = "overread"]
  ELSE LET size == Wrap(cap - StrLen(m.h[buf].bytes))
           m1 == strncat(m, buf, <<SP>>, Wrap(size - 1), ub)
       IN strncat(m1, buf, text, Wrap(size - 2), ub)

\* the other branch, with separator sep; done tells whether the text was
\* appended
AppendDynamic(m, i, f, text, sep, moves) ==
  IF m.h[i][f] # NULL
  THEN IF ~IsLive(m.h, m.h[i][f]) \/ ~HasNul(m.h[m.h[i][f]].bytes)
       THEN [m |-> [m EXCEPT !.fault = "crash"], done |-> FALSE]
       ELSE
         LET old == m.h[i][f]
             r == Realloc(m, old,
                          StrLen(m.h[old].bytes) + Len(text) + 2,
                          "bytes", moves)
         IN IF r.p = NULL THEN [m |-> r.m, done |-> FALSE]
            ELSE LET m1 == SetField(r.m, i, f, r.p)
                     m2 == strcat(m1, r.p, <<sep>>, "crash")
                 IN [m |-> strcat(m2, r.p, text, "crash"), done |-> TRUE]
  ELSE LET r == Calloc(m, ZeroStr(Len(text) + 1))
       IN IF r.p = NULL THEN [m |-> r.m, done |-> FALSE]
          ELSE [m |-> strcat(SetField(r.m, i, f, r.p), r.p, text, "crash"),
                done |-> TRUE]

opdis_insn_add_prefix(m, i, prefix, ub, moves) ==
  IF m.h[i].fixed_size # 0
  THEN [m |-> AppendFixed(m, m.h[i].prefixes, prefix,
                          PREFIX_SIZE(m.h[i].mnemonic_sz), ub),
        done |-> TRUE]
  ELSE AppendDynamic(m, i, "prefixes", prefix, SP, moves)

opdis_insn_add_comment(m, i, cmt, ub, moves) ==
  IF m.h[i].fixed_size # 0
  THEN [m |-> AppendFixed(m, m.h[i].comment, cmt, m.h[i].ascii_sz, ub),
        done |-> TRUE]
  ELSE AppendDynamic(m, i, "comment", cmt, SEMI, moves)

(* ----------------------------- add_operand ----------------------------- *)
\* i->operands[i->num_operands] = op; i->num_operands++; return 1
StoreOperand(m, i, op, ub) ==
  LET arr == m.h[i].operands
      n == m.h[i].num_operands
      bump == [m EXCEPT !.h[i].num_operands = n + 1]
  IN IF ~IsLive(m.h, arr) THEN [m |-> [m EXCEPT !.fault = "crash"], ret |-> 0]
     ELSE IF n + 1 <= Len(m.h[arr].slots)
     THEN [m |-> [bump EXCEPT !.h[arr].slots[n + 1] = op], ret |-> 1]
     ELSE IF ub = "crash"
     THEN [m |-> [m EXCEPT !.fault = "crash"], ret |-> 0]
     ELSE [m |-> [bump EXCEPT !.fault = "overflow"], ret |-> 1]

\* GrowFailed without line 284: alloc_operands stays incremented
GrowFailed_no_undo(m, i) == m

\* what opdis_insn_add_operand does when the realloc fails
GrowFailed(m, i) == SetField(m, i, "alloc_operands", m.h[i].alloc_operands - 1)

\* opdis_insn_add_operand without lines 275-279: it grows the array even
\* when a slot is free
opdis_insn_add_operand_always_grows(m, i, op, ub, moves) ==
  IF i = NULL \/ op = NULL THEN [m |-> m, ret |-> 0]
  ELSE LET m1 == SetField(m, i, "alloc_operands", m.h[i].alloc_operands + 1)
           r == Realloc(m1, m.h[i].operands, m1.h[i].alloc_operands,
                        "slots", moves)
       IN IF r.p = NULL THEN [m |-> GrowFailed(r.m, i), ret |-> 0]
          ELSE StoreOperand(SetField(r.m, i, "operands", r.p), i, op, ub)

opdis_insn_add_operand(m, i, op, ub, moves) ==
  IF i = NULL \/ op = NULL THEN [m |-> m, ret |-> 0]
  ELSE IF m.h[i].num_operands < m.h[i].alloc_operands
  THEN StoreOperand(m, i, op, ub)
  ELSE LET m1 == SetField(m, i, "alloc_operands", m.h[i].alloc_operands + 1)
           r == Realloc(m1, m.h[i].operands, m1.h[i].alloc_operands,
                        "slots", moves)
       IN IF r.p = NULL THEN [m |-> GrowFailed(r.m, i), ret |-> 0]
          ELSE StoreOperand(SetField(r.m, i, "operands", r.p), i, op, ub)

(* ------------------------------- inputs -------------------------------- *)
\* the capacities asked of the *_alloc_fixed functions: the small ones, and
\* the first one that an unsigned char cannot hold
Caps == (0..MaxCap) \cup {UCHAR_MOD}

\* the texts handed to the setters: every text of at most MaxLen letters, and
\* longer ones up to five more than the largest small capacity
Rep(k) == [i \in 1..k |-> 3]
Texts ==
  UNION {[1..k -> Letters] : k \in 0..MaxLen}
    \cup {Rep(k) : k \in (MaxLen + 1)..(MaxCap + 5)}

\* the prefixes and comments appended
Words == {Rep(k) : k \in 1..MaxLen} \cup {<<4>>}

\* which of a call's allocations fails, for a call that attempts cnt of them
\* when none fails: none, or the j-th
Fails(cnt) == {{}} \cup {{j} : j \in 1..cnt}

\* the outcomes of a store outside its block; "crash" is a choice only where
\* there is such a store
UB == {"overflow", "crash"}

(* ------------------------------ histories ------------------------------ *)
\* what is remembered of an Instruction: how it was made and with which
\* arguments, the operands opdis_insn_add_operand stored (and whether nothing
\* else was called since it was made), the prefixes and comments appended
\* since the field was last empty, and the texts last set
NoHist ==
  [origin |-> "none", n |-> 0, a |-> 0, mn |-> 0, o |-> 0, adds |-> <<>>,
   only_adds |-> TRUE, prefs |-> <<>>, cmts |-> <<>>, appends |-> 0,
   ascii |-> <<>>, mnemonic |-> <<>>, src_fixed |-> 0]

\* what is remembered of an Operand the caller holds
NoOHist == [origin |-> "none", o |-> 0, ascii |-> <<>>, src_fixed |-> 0]

NoCall == [op |-> "none", s |-> 0, ret |-> 0, n |-> 0]

Call(op, s, ret, n) == [op |-> op, s |-> s, ret |-> ret, n |-> n]

\* one more library call
Tick == calls < MaxCalls /\ calls' = calls + 1

\* nothing allocated, nothing held
Init ==
  /\ heap = [a \in Addr |-> NoBlock]
  /\ held = [s \in Slot |-> NULL]
  /\ oheld = [k \in OSlot |-> NULL]
  /\ fault = "none"
  /\ last = NoCall
  /\ hist = [s \in Slot |-> NoHist]
  /\ ohist = [k \in OSlot |-> NoOHist]
  /\ calls = 0

\* the caller holds Operands ready to be added: the first from
\* opdis_op_alloc_fixed( 1 ), the others from opdis_op_alloc()
InitPool ==
  /\ heap = [a \in Addr |->
               IF a = 1 THEN [ZeroOp EXCEPT !.fixed_size = 1, !.ascii_sz = 1,
                                            !.ascii = 2]
               ELSE IF a = 2 THEN ZeroStr(1)
               ELSE IF a <= MaxOperands + 2 THEN ZeroOp
               ELSE NoBlock]
  /\ held = [s \in Slot |-> NULL]
  /\ oheld = [k \in OSlot |-> IF k = 1 THEN 1 ELSE k + 1]
  /\ fault = "none"
  /\ last = NoCall
  /\ hist = [s \in Slot |-> NoHist]
  /\ ohist = [k \in OSlot |->
                IF k = 1 THEN [NoOHist EXCEPT !.origin = "fixed", !.o = 1]
                ELSE [NoOHist EXCEPT !.origin = "alloc"]]
  /\ calls = 0

(* ------------------------------- actions ------------------------------- *)
\* held[s] = opdis_insn_alloc( n )
InsnAlloc(s, n) ==
  /\ Tick /\ fault = "none" /\ held[s] = NULL
  /\ \E fails \in Fails(opdis_insn_alloc(Machine(heap, {}), n).m.cnt) :
       LET r == opdis_insn_alloc(Machine(heap, fails), n)
       IN /\ heap' = r.m.h
          /\ fault' = r.m.fault
          /\ held' = [held EXCEPT ![s] = r.p]
          /\ last' = Call("insn_alloc", s, r.p, n)
          /\ hist' = [hist EXCEPT ![s] =
                        IF r.p = NULL THEN [NoHist EXCEPT !.origin = "failed"]
                        ELSE [NoHist EXCEPT !.origin = "alloc", !.n = n]]
  /\ UNCHANGED <<oheld, ohist>>

\* held[s] = opdis_insn_alloc_fixed( a, mn, n, o )
InsnAllocFixed(s, a, mn, n, o) ==
  /\ Tick /\ fault = "none" /\ held[s] = NULL
  /\ \E fails \in Fails(opdis_insn_alloc_fixed(Machine(heap, {}),
                                               a, mn, n, o).m.cnt) :
       LET r == opdis_insn_alloc_fixed(Machine(heap, fails), a, mn, n, o)
       IN /\ heap' = r.m.h
          /\ fault' = r.m.fault
          /\ held' = [held EXCEPT ![s] = r.p]
          /\ last' = Call("insn_alloc_fixed", s, r.p, n)
          /\ hist' = [hist EXCEPT ![s] =
                        IF r.p = NULL THEN [NoHist EXCEPT !.origin = "failed"]
                        ELSE [NoHist EXCEPT !.origin = "fixed", !.n = n,
                                            !.a = a, !.mn = mn, !.o = o]]
  /\ UNCHANGED <<oheld, ohist>>

\* held[t] = opdis_insn_dupe( held[s] )
InsnDupe(s, t) ==
  /\ Tick /\ fault = "none" /\ held[s] # NULL /\ held[t] = NULL
  /\ \E fails \in Fails(opdis_insn_dupe(Machine(heap, {}), held[s]).m.cnt) :
       LET r == opdis_insn_dupe(Machine(heap, fails), held[s])
       IN /\ heap' = r.m.h
          /\ fault' = r.m.fault
          /\ held' = [held EXCEPT ![t] = r.p]
          /\ last' = Call("insn_dupe", t, r.p, s)
          /\ hist' = [hist EXCEPT ![t] =
                        IF r.p = NULL THEN [NoHist EXCEPT !.origin = "failed"]
                        ELSE [NoHist EXCEPT
                                !.origin = "dupe",
                                !.src_fixed = heap[held[s]].fixed_size]]
  /\ UNCHANGED <<oheld, ohist>>

\* opdis_insn_clear( held[s] ); the record of the call tells whether the
\* call before it was the same
InsnClear(s) ==
  /\ Tick /\ fault = "none" /\ held[s] # NULL
  /\ LET m == opdis_insn_clear(Machine(heap, {}), held[s])
     IN /\ heap' = m.h
        /\ fault' = m.fault
  /\ last' = Call("insn_clear", s, 0,
                  IF last.op = "insn_clear" /\ last.s = s THEN 1 ELSE 0)
  /\ hist' = [hist EXCEPT ![s] = [@ EXCEPT !.only_adds = FALSE,
                                           !.prefs = <<>>, !.ascii = <<>>,
                                           !.mnemonic = <<>>]]
  /\ UNCHANGED <<held, oheld, ohist>>

\* opdis_insn_free( held[s] ); the caller drops the pointer
InsnFree(s) ==
  /\ Tick /\ fault = "none" /\ held[s] # NULL
  /\ LET m == opdis_insn_free(Machine(heap, {}), held[s])
     IN /\ heap' = m.h
        /\ fault' = m.fault
  /\ held' = [held EXCEPT ![s] = NULL]
  /\ last' = Call("insn_free", s, 0, 0)
  /\ hist' = [hist EXCEPT ![s] = [NoHist EXCEPT !.origin = "freed"]]
  /\ UNCHANGED <<oheld, ohist>>

\* oheld[k] = opdis_op_alloc()
OpAlloc(k) ==
  /\ Tick /\ fault = "none" /\ oheld[k] = NULL
  /\ \E fails \in Fails(1) :
       LET r == opdis_op_alloc(Machine(heap, fails))
       IN /\ heap' = r.m.h
          /\ fault' = r.m.fault
          /\ oheld' = [oheld EXCEPT ![k] = r.p]
          /\ last' = Call("op_alloc", k, r.p, 0)
          /\ ohist' = [ohist EXCEPT ![k] =
                         IF r.p = NULL THEN NoOHist
                         ELSE [NoOHist EXCEPT !.origin = "alloc"]]
  /\ UNCHANGED <<held, hist>>

\* oheld[k] = opdis_op_alloc_fixed( o )
OpAllocFixed(k, o) ==
  /\ Tick /\ fault = "none" /\ oheld[k] = NULL
  /\ \E fails \in Fails(2) :
       LET r == opdis_op_alloc_fixed(Machine(heap, fails), o)
       IN /\ heap' = r.m.h
          /\ fault' = r.m.fault
          /\ oheld' = [oheld EXCEPT ![k] = r.p]
          /\ last' = Call("op_alloc_fixed", k, r.p, o)
          /\ ohist' = [ohist EXCEPT ![k] =
                         IF r.p = NULL THEN NoOHist
                         ELSE [NoOHist EXCEPT !.origin = "fixed", !.o = o]]
  /\ UNCHANGED <<held, hist>>

\* oheld[l] = opdis_op_dupe( oheld[k] )
OpDupe(k, l) ==
  /\ Tick /\ fault = "none" /\ oheld[k] # NULL /\ oheld[l] = NULL
  /\ \E fails \in Fails(opdis_op_dupe(Machine(heap, {}), oheld[k]).m.cnt) :
       LET r == opdis_op_dupe(Machine(heap, fails), oheld[k])
       IN /\ heap' = r.m.h
          /\ fault' = r.m.fault
          /\ oheld' = [oheld EXCEPT ![l] = r.p]
          /\ last' = Call("op_dupe", l, r.p, k)
          /\ ohist' = [ohist EXCEPT ![l] =
                         IF r.p = NULL THEN NoOHist
                         ELSE [NoOHist EXCEPT
                                 !.origin = "dupe",
                                 !.src_fixed = heap[oheld[k]].fixed_size]]
  /\ UNCHANGED <<held, hist>>

\* opdis_insn_add_operand( held[s], oheld[k] ): on success the Instruction
\* owns the Operand and the caller forgets it
AddOperand(s, k) ==
  /\ Tick /\ fault = "none" /\ held[s] # NULL /\ oheld[k] # NULL
  /\ \E fails \in Fails(1), ub \in UB, moves \in BOOLEAN :
       LET r == opdis_insn_add_operand(Machine(heap, fails), held[s],
                                       oheld[k], ub, moves)
           grows == heap[held[s]].num_operands >=
                      heap[held[s]].alloc_operands
       IN /\ ub = "crash" => r.m.fault = "crash"
          /\ (moves \/ fails # {}) => grows
          /\ heap' = r.m.h
          /\ fault' = r.m.fault
          /\ held' = held
          /\ oheld' = IF r.ret = 1 THEN [oheld EXCEPT ![k] = NULL] ELSE oheld
          /\ ohist' = IF r.ret = 1 THEN [ohist EXCEPT ![k] = NoOHist]
                      ELSE ohist
          /\ last' = Call("insn_add_operand", s, r.ret, oheld[k])
          /\ hist' = IF r.ret = 1
                     THEN [hist EXCEPT ![s].adds = Append(@, oheld[k])]
                     ELSE hist

\* opdis_insn_set_ascii( held[s], text )
SetAscii(s, text) ==
  /\ Tick /\ fault = "none" /\ held[s] # NULL
  /\ \E fails \in Fails(opdis_insn_set_ascii(Machine(heap, {}), held[s],
                                             text, "overflow").cnt),
        ub \in UB :
       LET m == opdis_insn_set_ascii(Machine(heap, fails), held[s], text, ub)
       IN /\ ub = "crash" => m.fault = "crash"
          /\ heap' = m.h
          /\ fault' = m.fault
          /\ hist' = [hist EXCEPT ![s].only_adds = FALSE,
                                  ![s].ascii =
                                    IF m.h[held[s]].ascii = NULL THEN <<>>
                                    ELSE <<text>>]
  /\ last' = Call("insn_set_ascii", s, 0, 0)
  /\ UNCHANGED <<held, oheld, ohist>>

\* opdis_insn_set_mnemonic( held[s], text )
SetMnemonic(s, text) ==
  /\ Tick /\ fault = "none" /\ held[s] # NULL
  /\ \E fails \in Fails(opdis_insn_set_mnemonic(Machine(heap, {}), held[s],
                                                text, "overflow").cnt),
        ub \in UB :
       LET m == opdis_insn_set_mnemonic(Machine(heap, fails), held[s],
                                        text, ub)
       IN /\ ub = "crash" => m.fault = "crash"
          /\ heap' = m.h
          /\ fault' = m.fault
          /\ hist' = [hist EXCEPT ![s].only_adds = FALSE,
                                  ![s].mnemonic =
                                    IF m.h[held[s]].mnemonic = NULL THEN <<>>
                                    ELSE <<text>>]
  /\ last' = Call("insn_set_mnemonic", s, 0, 0)
  /\ UNCHANGED <<held, oheld, ohist>>

\* opdis_op_set_ascii( oheld[k], text )
OpSetAscii(k, text) ==
  /\ Tick /\ fault = "none" /\ oheld[k] # NULL
  /\ \E fails \in Fails(opdis_op_set_ascii(Machine(heap, {}), oheld[k],
                                           text, "overflow").cnt),
        ub \in UB :
       LET m == opdis_op_set_ascii(Machine(heap, fails), oheld[k], text, ub)
       IN /\ ub = "crash" => m.fault = "crash"
          /\ heap' = m.h
          /\ fault' = m.fault
          /\ ohist' = [ohist EXCEPT ![k].ascii =
                                      IF m.h[oheld[k]].ascii = NULL THEN <<>>
                                      ELSE <<text>>]
  /\ last' = Call("op_set_ascii", k, 0, 0)
  /\ UNCHANGED <<held, oheld, hist>>

\* opdis_insn_add_prefix( held[s], prefix )
AddPrefix(s, prefix) ==
  /\ Tick /\ fault = "none" /\ held[s] # NULL
  /\ hist[s].appends < MaxAppends
  /\ \E fails \in Fails(opdis_insn_add_prefix(Machine(heap, {}), held[s],
                                              prefix, "overflow",
                                              FALSE).m.cnt),
        ub \in UB, moves \in BOOLEAN :
       LET r == opdis_insn_add_prefix(Machine(heap, fails), held[s], prefix,
                                      ub, moves)
       IN /\ ub = "crash" => r.m.fault = "crash"
          /\ moves => (fails = {} /\ heap[held[s]].fixed_size = 0
                       /\ heap[held[s]].prefixes # NULL)
          /\ heap' = r.m.h
          /\ fault' = r.m.fault
          /\ hist' = [hist EXCEPT ![s].only_adds = FALSE,
                                  ![s].appends = @ + 1,
                                  ![s].prefs =
                                    IF r.done THEN Append(@, prefix) ELSE @]
  /\ last' = Call("insn_add_prefix", s, 0, 0)
  /\ UNCHANGED <<held, oheld, ohist>>

\* opdis_insn_add_comment( held[s], cmt )
AddComment(s, cmt) ==
  /\ Tick /\ fault = "none" /\ held[s] # NULL
  /\ hist[s].appends < MaxAppends
  /\ \E fails \in Fails(opdis_insn_add_comment(Machine(heap, {}), held[s],
                                               cmt, "overflow",
                                               FALSE).m.cnt),
        ub \in UB, moves \in BOOLEAN :
       LET r == opdis_insn_add_comment(Machine(heap, fails), held[s], cmt,
                                       ub, moves)
       IN /\ ub = "crash" => r.m.fault = "crash"
          /\ moves => (fails = {} /\ heap[held[s]].fixed_size = 0
                       /\ heap[held[s]].comment # NULL)
          /\ heap' = r.m.h
          /\ fault' = r.m.fault
          /\ hist' = [hist EXCEPT ![s].only_adds = FALSE,
                                  ![s].appends = @ + 1,
                                  ![s].cmts =
                                    IF r.done THEN Append(@, cmt) ELSE @]
  /\ last' = Call("insn_add_comment", s, 0, 0)
  /\ UNCHANGED <<held, oheld, ohist>>

(* ---------------------------- specifications --------------------------- *)
\* what the decoder may store in status, category and flags
Statuses ==
  {opdis_decode_invalid,
   opdis_decode_basic + opdis_decode_mnem + opdis_decode_ops,
   opdis_decode_basic + opdis_decode_mnem + opdis_decode_ops
     + opdis_decode_mnem_flags,
   opdis_decode_basic + opdis_decode_mnem + opdis_decode_ops
     + opdis_decode_mnem_flags + opdis_decode_op_flags}
Categories ==
  {opdis_insn_cat_unknown, opdis_insn_cat_cflow, opdis_insn_cat_stack,
   opdis_insn_cat_bit, opdis_insn_cat_io}
Flags ==
  {opdis_cflow_flag_none, opdis_cflow_flag_call, opdis_cflow_flag_callcc,
   opdis_cflow_flag_jmp, opdis_cflow_flag_jmpcc, opdis_cflow_flag_ret}
Accessors == {"target", "dest", "src"}

\* the decoder stores the scalar results of decoding in *held[s]
Decode(s, st, cat, fl, v) ==
  /\ Tick /\ fault = "none" /\ held[s] # NULL
  /\ heap' = [heap EXCEPT ![held[s]] =
                [@ EXCEPT !.status = st, !.category = cat, !.flags = fl,
                          !.offset = v, !.vma = v + 1, !.size = v + 2,
                          !.isa = v + 3]]
  /\ hist' = [hist EXCEPT ![s].only_adds = FALSE]
  /\ last' = Call("decode", s, 0, 0)
  /\ UNCHANGED <<held, oheld, fault, ohist>>

\* the decoder makes held[s]->f (target, dest or src) refer to the k-th
\* operand of the Instruction
SetAccessor(s, f, k) ==
  /\ Tick /\ fault = "none" /\ held[s] # NULL
  /\ k <= heap[held[s]].num_operands
  /\ IsLive(heap, heap[held[s]].operands)
  /\ k <= Len(heap[heap[held[s]].operands].slots)
  /\ heap' = [heap EXCEPT ![held[s]][f] = heap[heap[held[s]].operands].slots[k]]
  /\ hist' = [hist EXCEPT ![s].only_adds = FALSE]
  /\ last' = Call("set_accessor", s, 0, k)
  /\ UNCHANGED <<held, oheld, fault, ohist>>

\* opdis_insn_is_branch( held[s] ), also of no Instruction; the record of
\* the call tells whether the call before it was opdis_insn_clear( held[s] )
IsBranch(s) ==
  /\ Tick /\ fault = "none"
  /\ last' = Call("insn_is_branch", s, opdis_insn_is_branch(heap, held[s]),
                  IF last.op = "insn_clear" /\ last.s = s THEN 1 ELSE 0)
  /\ UNCHANGED <<heap, held, oheld, fault, hist, ohist>>

\* opdis_insn_fallthrough( held[s] ), also of no Instruction
Fallthrough(s) ==
  /\ Tick /\ fault = "none"
  /\ last' = Call("insn_fallthrough", s,
                  opdis_insn_fallthrough(heap, held[s]), 0)
  /\ UNCHANGED <<heap, held, oheld, fault, hist, ohist>>

\* The caller makes one Instruction (slot 1), duplicates it once (slot 2) and
\* works on both.

\* The Operands from opdis_op_alloc() that the caller holds are all alike, and
\* so are its unused pointers: it uses the first of each.
FirstHeld(k) == k = 1 \/ \A j \in OSlot : (1 < j /\ j < k) => oheld[j] = NULL
FirstFree(l) == \A j \in OSlot : j < l => oheld[j] # NULL

\* the operand side: allocation, duplication, clearing and
\* opdis_insn_add_operand of Operands the caller holds, with every
\* allocation free to fail
NextOps ==
  \/ \E n \in 0..MaxOperands : hist[1].origin = "none" /\ InsnAlloc(1, n)
  \/ \E n \in 0..MaxOperands, o \in {1, UCHAR_MOD} :
       hist[1].origin = "none" /\ InsnAllocFixed(1, MaxCap, 1, n, o)
  \/ hist[2].origin = "none" /\ InsnDupe(1, 2)
  \/ \E s \in Slot : InsnClear(s)
  \/ \E s \in Slot, k \in OSlot : FirstHeld(k) /\ AddOperand(s, k)

SpecOps == InitPool /\ [][NextOps]_vars

\* the setters, on one object: a dynamic or fixed-size Instruction (all its
\* buffers of capacity c), or a dynamic or fixed-size Operand
NextSet ==
  \/ hist[1].origin = "none" /\ ohist[1].origin = "none" /\ InsnAlloc(1, 0)
  \/ \E c \in Caps :
       hist[1].origin = "none" /\ ohist[1].origin = "none"
       /\ InsnAllocFixed(1, c, c, 0, c)
  \/ hist[1].origin = "none" /\ ohist[1].origin = "none" /\ OpAlloc(1)
  \/ \E c \in Caps :
       hist[1].origin = "none" /\ ohist[1].origin = "none"
       /\ OpAllocFixed(1, c)
  \/ \E t \in Texts : SetAscii(1, t)
  \/ \E t \in Texts : SetMnemonic(1, t)
  \/ \E t \in Texts : OpSetAscii(1, t)
  \/ InsnClear(1)

SpecSet == Init /\ [][NextSet]_vars

\* opdis_insn_add_prefix and opdis_insn_add_comment on one Instruction,
\* dynamic or fixed-size
NextAppend ==
  \/ hist[1].origin = "none" /\ InsnAlloc(1, 0)
  \/ \E a \in 0..MaxCap, mn \in 0..MaxCap :
       hist[1].origin = "none" /\ InsnAllocFixed(1, a, mn, 0, 0)
  \/ \E w \in Words : AddPrefix(1, w)
  \/ \E w \in Words : AddComment(1, w)
  \/ InsnClear(1)

SpecAppend == Init /\ [][NextAppend]_vars

\* what a decoder leaves in an Instruction, and the duplicate taken of it:
\* the caller fills slot 1 (operands, scalar fields, accessors, strings),
\* duplicates it into slot 2, and then adds a comment to either or frees
\* the original
DecodeResults ==
  {<<opdis_decode_basic + opdis_decode_mnem + opdis_decode_ops
       + opdis_decode_mnem_flags,
     opdis_insn_cat_cflow, opdis_cflow_flag_jmp, 5>>}

\* the order in which the decoder fills an Instruction: operands, scalar
\* fields, accessors, then the strings
FillOrder ==
  <<"op_set_ascii", "insn_add_operand", "decode", "set_accessor",
    "insn_set_ascii", "insn_set_mnemonic", "insn_add_prefix",
    "insn_add_comment">>
Rank(op) ==
  IF \E j \in 1..Len(FillOrder) : FillOrder[j] = op
  THEN CHOOSE j \in 1..Len(FillOrder) : FillOrder[j] = op
  ELSE 0

\* the decoder is filling slot 1 and has not reached step op yet, or is at
\* that step and the step is the one it repeats
Filling(op) ==
  /\ hist[2].origin = "none"
  /\ \/ Rank(last.op) < Rank(op)
     \/ last.op = op /\ op = "insn_add_operand"

\* the step stored its text: while the decoder fills slot 1 the allocator
\* does not run out (what the setters do when it does is the matter of
\* SpecSet and SpecAppend)
Filled ==
  \/ hist'[1].ascii # hist[1].ascii
  \/ hist'[1].mnemonic # hist[1].mnemonic
  \/ hist'[1].prefs # hist[1].prefs
  \/ hist'[1].cmts # hist[1].cmts
  \/ ohist'[2].ascii # ohist[2].ascii

\* opdis_insn_dupe has just returned the duplicate
Duplicated == hist[2].origin = "dupe" /\ last.op = "insn_dupe"

NextDupe ==
  \/ \E n \in 0..MaxOperands : hist[1].origin = "none" /\ InsnAlloc(1, n)
  \/ \E n \in 0..1 :
       hist[1].origin = "none" /\ InsnAllocFixed(1, MaxCap, 1, n, 1)
  \/ Filling("op_set_ascii") /\ OpSetAscii(2, <<4>>) /\ Filled
  \/ \E k \in OSlot :
       Filling("insn_add_operand") /\ FirstHeld(k) /\ AddOperand(1, k)
  \/ \E d \in DecodeResults :
       Filling("decode") /\ Decode(1, d[1], d[2], d[3], d[4])
  \/ \E f \in Accessors, k \in 1..MaxOperands :
       Filling("set_accessor") /\ SetAccessor(1, f, k)
  \/ Filling("insn_set_ascii") /\ SetAscii(1, <<3, 4>>) /\ Filled
  \/ Filling("insn_set_mnemonic") /\ SetMnemonic(1, <<3>>) /\ Filled
  \/ Filling("insn_add_prefix") /\ AddPrefix(1, <<4>>) /\ Filled
  \/ Filling("insn_add_comment") /\ AddComment(1, <<3>>) /\ Filled
  \/ hist[2].origin = "none" /\ InsnDupe(1, 2)
  \/ \E s \in Slot : Duplicated /\ AddComment(s, <<3>>)
  \/ Duplicated /\ InsnFree(1)

SpecDupe == InitPool /\ [][NextDupe]_vars

\* the life of an Instruction used as a buffer (a fixed-size one, or one from
\* opdis_insn_alloc): the decoder fills it, the caller clears it, and so on
\* until the caller frees it
NextClear ==
  \/ \E n \in 0..1 : hist[1].origin = "none" /\ InsnAlloc(1, n)
  \/ \E n \in 0..1 :
       hist[1].origin = "none" /\ InsnAllocFixed(1, MaxCap, 2, n, 1)
  \/ Filling("op_set_ascii") /\ OpSetAscii(1, <<4>>)
  \/ \E k \in OSlot :
       Filling("insn_add_operand") /\ FirstHeld(k) /\ AddOperand(1, k)
  \/ \E d \in DecodeResults :
       Filling("decode") /\ Decode(1, d[1], d[2], d[3], d[4])
  \/ \E f \in Accessors, k \in 1..MaxOperands :
       Filling("set_accessor") /\ SetAccessor(1, f, k)
  \/ \E t \in {<<3>>, <<3, 4>>} : Filling("insn_set_ascii") /\ SetAscii(1, t)
  \/ Filling("insn_set_mnemonic") /\ SetMnemonic(1, <<3>>)
  \/ Filling("insn_add_prefix") /\ AddPrefix(1, <<4>>)
  \/ Filling("insn_add_comment") /\ AddComment(1, <<3>>)
  \/ InsnClear(1)
  \/ InsnFree(1)

SpecClear == InitPool /\ [][NextClear]_vars

\* the classification queries, on no Instruction and on an Instruction in
\* which the decoder has stored any status, category and flag, also after
\* it was cleared
NextQuery ==
  \/ hist[1].origin = "none" /\ InsnAlloc(1, 0)
  \/ \E st \in Statuses, cat \in Categories, fl \in Flags :
       Decode(1, st, cat, fl, 0)
  \/ InsnClear(1)
  \/ \E s \in Slot : IsBranch(s)
  \/ \E s \in Slot : Fallthrough(s)

SpecQuery == Init /\ [][NextQuery]_vars

(* ------------------------------- claims -------------------------------- *)
\* the Instruction held in slot s, and its operand array (empty when absent)
Insn(s) == heap[held[s]]
Slots(i) == IF IsLive(heap, i.operands) THEN heap[i.operands].slots ELSE <<>>
Text(p) == StrOf(heap[p].bytes)

\* C1: every Instruction the caller holds has num_operands <= alloc_operands,
\* and each of the first num_operands slots of its operand array exists and
\* holds an Operand.
C1_OperandsPopulated ==
  \A s \in Slot :
    held[s] # NULL =>
      /\ Insn(s).num_operands <= Insn(s).alloc_operands
      /\ \A k \in 1..Insn(s).num_operands :
           k <= Len(Slots(Insn(s))) /\ Slots(Insn(s))[k] # NULL

\* C2: for an Instruction from opdis_insn_alloc( n ) on which only
\* opdis_insn_add_operand has been called, num_operands is the number of
\* calls that returned 1, the k-th of them stored its operand in slot k, and
\* alloc_operands is still n after at most n of them and one more for each
\* later one.
C2_AddOperandGrowth ==
  \A s \in Slot :
    (hist[s].origin = "alloc" /\ hist[s].only_adds) =>
      LET k == Len(hist[s].adds)
      IN /\ Insn(s).num_operands = k
         /\ Insn(s).alloc_operands = (IF k <= hist[s].n THEN hist[s].n ELSE k)
         /\ Insn(s).alloc_operands > 0 =>
              Len(Slots(Insn(s))) = Insn(s).alloc_operands
         /\ \A j \in 1..k : Slots(Insn(s))[j] = hist[s].adds[j]

\* an Instruction from opdis_insn_alloc( 2 ) after three successful
\* opdis_insn_add_operand calls, the third of which grew it to 3
C2_Witness ==
  /\ hist[1].origin = "alloc" /\ hist[1].only_adds /\ hist[1].n = 2
  /\ Len(hist[1].adds) = 3
  /\ last.op = "insn_add_operand" /\ last.ret = 1 /\ last.s = 1
  /\ Insn(1).alloc_operands = 3

\* C3: a call of opdis_insn_add_operand that returns 0 because the operand
\* array could not be grown leaves the whole heap as it was (num_operands,
\* alloc_operands, the operand array and its slots), and the caller still
\* holds the operand.
C3_GrowthFailureNoChange ==
  [][(last'.op = "insn_add_operand" /\ last'.ret = 0 /\ fault' = "none")
       => (heap' = heap /\ held' = held /\ oheld' = oheld)]_vars

\* opdis_insn_add_operand has just returned 0 on a full Instruction that
\* already holds an operand
C3_Witness ==
  /\ last.op = "insn_add_operand" /\ last.ret = 0 /\ fault = "none"
  /\ Insn(last.s).num_operands = Insn(last.s).alloc_operands
  /\ Insn(last.s).num_operands > 0

\* C4: the Instruction a successful opdis_insn_alloc( n ) returns has
\* alloc_operands = n, num_operands = 0, no strings, fixed_size = 0 and, for
\* n > 0, an operand array of n absent slots.
C4_AllocShape ==
  (last.op = "insn_alloc" /\ last.ret # NULL) =>
    LET i == heap[last.ret]
    IN /\ i.alloc_operands = last.n
       /\ i.num_operands = 0
       /\ i.ascii = NULL /\ i.prefixes = NULL /\ i.mnemonic = NULL
       /\ i.comment = NULL
       /\ i.fixed_size = 0
       /\ last.n > 0 => (/\ IsLive(heap, i.operands)
                         /\ Slots(i) = [k \in 1..last.n |-> NULL])

\* opdis_insn_alloc( 2 ) has just succeeded
C4_Witness == last.op = "insn_alloc" /\ last.ret # NULL /\ last.n = 2

\* C5: the Instruction a successful opdis_insn_alloc_fixed( a, m, n, o )
\* returns has fixed_size = 1 and num_operands = n = alloc_operands, and each
\* of its n operand slots holds an Operand with fixed_size = 1 and an ascii
\* buffer of capacity o.
C5_AllocFixedShape ==
  (last.op = "insn_alloc_fixed" /\ last.ret # NULL) =>
    LET i == heap[last.ret]
    IN /\ i.fixed_size = 1
       /\ i.num_operands = last.n
       /\ i.alloc_operands = last.n
       /\ Len(Slots(i)) = last.n
       /\ \A k \in 1..last.n :
            /\ IsLive(heap, Slots(i)[k])
            /\ heap[Slots(i)[k]].fixed_size = 1
            /\ Len(heap[heap[Slots(i)[k]].ascii].bytes) = hist[last.s].o

\* the first n characters of t (all of t when it is shorter)
Trunc(t, n) == SubSeq(t, 1, MinOf(Len(t), n))

\* the texts of ws with sep between successive ones
RECURSIVE Join(_, _)
Join(ws, sep) ==
  IF ws = <<>> THEN <<>>
  ELSE IF Len(ws) = 1 THEN ws[1]
  ELSE ws[1] \o <<sep>> \o Join(Tail(ws), sep)

\* C6: after a setter on a fixed-size Instruction or Operand made with
\* capacity c >= 1, nothing was written outside the buffer, and the field
\* holds the first min(len, c - 1) characters of the text last set, followed
\* by a terminator.
C6_SetTruncates ==
  /\ (last.op \in {"insn_set_ascii", "insn_set_mnemonic"}
      /\ hist[1].origin = "fixed" /\ hist[1].a >= 1) =>
       /\ fault = "none"
       /\ hist[1].ascii # <<>> =>
            Text(Insn(1).ascii) = Trunc(hist[1].ascii[1], hist[1].a - 1)
       /\ hist[1].mnemonic # <<>> =>
            Text(Insn(1).mnemonic) =
              Trunc(hist[1].mnemonic[1], hist[1].mn - 1)
  /\ (last.op = "op_set_ascii" /\ ohist[1].origin = "fixed"
      /\ ohist[1].o >= 1) =>
       /\ fault = "none"
       /\ ohist[1].ascii # <<>> =>
            Text(heap[oheld[1]].ascii) =
              Trunc(ohist[1].ascii[1], ohist[1].o - 1)

\* C7: after opdis_insn_add_prefix or opdis_insn_add_comment on a fixed-size
\* Instruction whose buffers are present and of capacity at least 1, nothing
\* was written outside a buffer, the prefixes text ends within its
\* 4 * mnemonic_sz bytes and the comment text within its ascii_sz bytes.
C7_FixedAppendBounded ==
  (last.op \in {"insn_add_prefix", "insn_add_comment"}
   /\ hist[1].origin = "fixed" /\ hist[1].a >= 1 /\ hist[1].mn >= 1
   /\ Insn(1).comment # NULL) =>
    /\ fault = "none"
    /\ HasNul(heap[Insn(1).prefixes].bytes)
    /\ Len(heap[Insn(1).prefixes].bytes) = 4 * hist[1].mn
    /\ HasNul(heap[Insn(1).comment].bytes)
    /\ Len(heap[Insn(1).comment].bytes) = hist[1].a

\* C8: on an Instruction from opdis_insn_alloc, the prefixes string is the
\* prefixes successfully added since it was last empty, joined by single
\* spaces, with no space before the first or after the last.
C8_DynamicPrefixJoin ==
  (hist[1].origin = "alloc" /\ hist[1].prefs # <<>> /\ fault = "none") =>
    /\ Insn(1).prefixes # NULL
    /\ Text(Insn(1).prefixes) = Join(hist[1].prefs, SP)

\* C9: the comment field is the comments added, joined by ';', in dynamic
\* mode and (cut to capacity - 1 characters) in fixed mode.
C9_CommentSemicolons ==
  (hist[1].origin \in {"alloc", "fixed"} /\ hist[1].cmts # <<>>
   /\ fault = "none" /\ Insn(1).comment # NULL) =>
    Text(Insn(1).comment) =
      (IF hist[1].origin = "fixed"
       THEN Trunc(Join(hist[1].cmts, SEMI), hist[1].a - 1)
       ELSE Join(hist[1].cmts, SEMI))

\* C10: every Instruction opdis_insn_dupe returned, each Operand in it (made
\* by opdis_op_dupe) and every Operand opdis_op_dupe returned to the caller
\* has fixed_size = 0.
C10_DupeIsDynamic ==
  /\ \A s \in Slot :
       (hist[s].origin = "dupe" /\ last.op = "insn_dupe") =>
         /\ Insn(s).fixed_size = 0
         /\ \A k \in 1..Insn(s).num_operands :
              heap[Slots(Insn(s))[k]].fixed_size = 0
  /\ \A k \in OSlot :
       ohist[k].origin = "dupe" => heap[oheld[k]].fixed_size = 0

\* C11: in the Instruction opdis_insn_dupe has just returned, target, dest
\* and src are unset; none of them is an Operand of the source Instruction.
C11_DupeDropsAccessors ==
  (last.op = "insn_dupe" /\ hist[2].origin = "dupe") =>
    \A f \in Accessors :
      /\ Insn(2)[f] = NULL
      /\ \A k \in 1..Insn(1).num_operands :
           Insn(2)[f] # Slots(Insn(1))[k]

\* the string fields f of i and j are both absent, or both present with the
\* same text
SameText(i, j, f) ==
  IF i[f] = NULL THEN j[f] = NULL
  ELSE j[f] # NULL /\ Text(j[f]) = Text(i[f])

\* C12: the Instruction a successful opdis_insn_dupe returns has the scalar
\* fields of the source, the texts of its ascii, prefixes and mnemonic
\* (absent where the source's is), num_operands = min(source's
\* num_operands, its own alloc_operands), and each of its operands has the
\* category, flags, value, data_size and ascii text of the source's operand
\* at the same index.
C12_DupeContent ==
  (last.op = "insn_dupe" /\ hist[2].origin = "dupe") =>
    /\ \A f \in {"status", "offset", "vma", "size", "category", "isa",
                  "flags"} : Insn(2)[f] = Insn(1)[f]
    /\ \A f \in {"ascii", "prefixes", "mnemonic"} :
         SameText(Insn(1), Insn(2), f)
    /\ Insn(2).num_operands =
         MinOf(Insn(1).num_operands, Insn(2).alloc_operands)
    /\ \A k \in 1..Insn(2).num_operands :
         LET o1 == heap[Slots(Insn(1))[k]]
             o2 == heap[Slots(Insn(2))[k]]
         IN /\ \A f \in {"category", "flags", "value", "data_size"} :
                 o2[f] = o1[f]
            /\ SameText(o1, o2, "ascii")

\* opdis_insn_dupe has just duplicated a decoded Instruction that has an
\* ascii text and an operand with a text
C12_Witness ==
  /\ last.op = "insn_dupe" /\ hist[2].origin = "dupe"
  /\ Insn(1).status # opdis_decode_invalid
  /\ Insn(1).ascii # NULL /\ Text(Insn(1).ascii) = <<3, 4>>
  /\ Insn(2).num_operands >= 1
  /\ heap[Slots(Insn(1))[1]].ascii # NULL
  /\ Text(heap[Slots(Insn(1))[1]].ascii) = <<4>>

\* the blocks Instruction i owns: its four strings, its operand array, its
\* first num_operands Operands and their strings
Owned(i) ==
  LET ops == {Slots(i)[k] : k \in 1..MinOf(i.num_operands, Len(Slots(i)))}
  IN ({i.ascii, i.prefixes, i.mnemonic, i.comment, i.operands} \cup ops
        \cup {heap[o].ascii : o \in {x \in ops : IsLive(heap, x)}})
       \ {NULL}

\* C13: once opdis_insn_dupe has returned, and whatever is then done to
\* either Instruction, the original and the duplicate own no block in
\* common, and every block either owns is allocated.
C13_DupeIndependent ==
  (hist[2].origin = "dupe" /\ held[1] # NULL /\ fault = "none") =>
    /\ Owned(Insn(1)) \cap Owned(Insn(2)) = {}
    /\ \A b \in Owned(Insn(1)) \cup Owned(Insn(2)) : IsLive(heap, b)

\* Instruction i is as opdis_insn_clear leaves one
Cleared(h, i) ==
  /\ h[i].status = opdis_decode_invalid
  /\ \A f \in {"ascii", "prefixes", "mnemonic"} :
       h[i][f] # NULL /\ StrOf(h[h[i][f]].bytes) = <<>>
  /\ h[i].num_prefixes = 0
  /\ h[i].num_operands = 0
  /\ \A f \in Accessors : h[i][f] = NULL

\* C14: opdis_insn_clear leaves a fixed-size Instruction with status
\* invalid, ascii, prefixes and mnemonic empty, num_prefixes = 0,
\* num_operands = 0 and target, dest, src unset; a second opdis_insn_clear
\* right after it changes nothing.
C14_ClearIdempotent ==
  [][(last'.op = "insn_clear" /\ fault' = "none"
      /\ heap'[held'[last'.s]].fixed_size = 1) =>
        /\ Cleared(heap', held'[last'.s])
        /\ (last.op = "insn_clear" /\ last.s = last'.s) => heap' = heap]_vars

\* opdis_insn_clear has just been called a second time on a fixed-size
\* Instruction that the first call had emptied of an operand and of texts
C14_Witness ==
  /\ last.op = "insn_clear" /\ last.n = 1 /\ fault = "none"
  /\ Insn(1).fixed_size = 1
  /\ hist[1].adds # <<>>

\* C15: opdis_insn_free releases every block the Instruction owned: its four
\* strings, its operand array, its Operands and their strings, and the
\* Instruction itself.
C15_FreeReleasesAll ==
  [][(last'.op = "insn_free" /\ fault' = "none") =>
       \A b \in Owned(Insn(last'.s)) \cup {held[last'.s]} :
         heap'[b].kind = "freed"]_vars

\* C16: opdis_insn_alloc_fixed returns no Instruction when an allocation
\* fails, so an Instruction it returns has its four string buffers; and when
\* it returns none, no block it allocated is still allocated.
C16_AllocFixedFailure ==
  [][(last'.op = "insn_alloc_fixed" /\ fault' = "none") =>
       IF last'.ret = NULL
       THEN \A a \in Addr : IsLive(heap', a) => IsLive(heap, a)
       ELSE \A f \in {"ascii", "prefixes", "mnemonic", "comment"} :
              heap'[last'.ret][f] # NULL]_vars

\* C17: when opdis_insn_dupe returns no Instruction, no block it allocated
\* is still allocated, and every block that was allocated before the call
\* (the source's among them) is allocated still and unchanged.
C17_DupeFailure ==
  [][(last'.op = "insn_dupe" /\ last'.ret = NULL /\ fault' = "none") =>
       \A a \in Addr :
         /\ IsLive(heap', a) => IsLive(heap, a)
         /\ IsLive(heap, a) => heap'[a] = heap[a]]_vars

\* the control-flow flags of instructions that have a branch target
BranchFlags ==
  {opdis_cflow_flag_call, opdis_cflow_flag_callcc, opdis_cflow_flag_jmp,
   opdis_cflow_flag_jmpcc}

\* C18: opdis_insn_is_branch returns 1 exactly when the category is
\* control-flow and the flag is call, conditional call, jump or conditional
\* jump, and 0 otherwise: for control-flow with return, and for every other
\* category whatever the flag.
C18_IsBranchTable ==
  (last.op = "insn_is_branch" /\ held[last.s] # NULL) =>
    /\ last.ret \in {0, 1}
    /\ last.ret = 1 <=>
         (/\ Insn(last.s).category = opdis_insn_cat_cflow
          /\ Insn(last.s).flags \in BranchFlags)

\* opdis_insn_is_branch has just returned 0 for a category that is not
\* control-flow, with the flag value of a jump
C18_Witness ==
  /\ last.op = "insn_is_branch" /\ held[last.s] # NULL /\ last.ret = 0
  /\ Insn(last.s).category = opdis_insn_cat_stack
  /\ Insn(last.s).flags = opdis_cflow_flag_jmp

\* status says that the category and flags of the instruction were decoded
FlagsDecoded(i) == (i.status \div opdis_decode_mnem_flags) % 2 = 1

\* C19: opdis_insn_is_branch returns 1 only for an Instruction whose status
\* says that its flags were decoded.
C19_IsBranchNeedsStatus ==
  (last.op = "insn_is_branch" /\ held[last.s] # NULL /\ last.ret = 1) =>
    FlagsDecoded(Insn(last.s))

\* C19, amended: opdis_insn_is_branch does not look at status. For an
\* Instruction whose status does not say that its flags were decoded, one
\* just reset by opdis_insn_clear included, it still returns 1 when the
\* category is control-flow and the flag is call, conditional call, jump or
\* conditional jump, and 0 otherwise.
C19_IsBranchIgnoresStatus ==
  (last.op = "insn_is_branch" /\ held[last.s] # NULL
   /\ ~FlagsDecoded(Insn(last.s))) =>
    last.ret = (IF /\ Insn(last.s).category = opdis_insn_cat_cflow
                   /\ Insn(last.s).flags \in BranchFlags
                THEN 1 ELSE 0)

\* opdis_insn_is_branch has just returned 1 for an Instruction that
\* opdis_insn_clear had reset right before
C19_Witness ==
  /\ last.op = "insn_is_branch" /\ last.n = 1 /\ last.ret = 1
  /\ Insn(last.s).status = opdis_decode_invalid
  /\ Insn(last.s).flags = opdis_cflow_flag_jmp

\* the control-flow flags of instructions after which execution does not go
\* on to the next instruction
NoFallthroughFlags == {opdis_cflow_flag_ret, opdis_cflow_flag_jmp}

\* C20: opdis_insn_fallthrough returns 0 exactly when the category is
\* control-flow and the flag is return or jump, and 1 in every other case,
\* whatever the status.
C20_FallthroughTable ==
  (last.op = "insn_fallthrough" /\ held[last.s] # NULL) =>
    /\ last.ret \in {0, 1}
    /\ last.ret = 0 <=>
         (/\ Insn(last.s).category = opdis_insn_cat_cflow
          /\ Insn(last.s).flags \in NoFallthroughFlags)

\* opdis_insn_fallthrough has just returned 0 for a control-flow return
\* whose status is invalid
C20_Witness ==
  /\ last.op = "insn_fallthrough" /\ held[last.s] # NULL /\ last.ret = 0
  /\ Insn(last.s).flags = opdis_cflow_flag_ret
  /\ Insn(last.s).status = opdis_decode_invalid

\* C21: in every Instruction the caller holds, each of target, dest and src
\* is unset or is one of the Operands in the first num_operands slots of that
\* Instruction's own operand array; so it is in the Instruction
\* opdis_insn_dupe returned and after opdis_insn_clear.
C21_AccessorsInArray ==
  \A s \in Slot :
    (held[s] # NULL /\ fault = "none") =>
      \A f \in Accessors :
        \/ Insn(s)[f] = NULL
        \/ \E k \in 1..MinOf(Insn(s).num_operands, Len(Slots(Insn(s)))) :
             Slots(Insn(s))[k] = Insn(s)[f]

\* the fields of an Instruction that opdis_insn_clear stores to
ClearedFields ==
  {"status", "num_prefixes", "num_operands", "target", "dest", "src"}

\* the strings of Instruction i that opdis_insn_clear empties
ClearedStrings(i) == {i.ascii, i.prefixes, i.mnemonic} \ {NULL}

\* C22: opdis_insn_clear changes only status, num_prefixes, num_operands,
\* target, dest, src and the content of the ascii, prefixes and mnemonic
\* buffers, which become empty strings in the same blocks of the same size.
\* Every other field of the Instruction (alloc_operands, the operands,
\* string and comment pointers, fixed_size, ascii_sz, mnemonic_sz, category,
\* flags) and every other block (the operand array, the Operands and their
\* strings, the comment) is as before.
C22_ClearFrame ==
  [][(last'.op = "insn_clear" /\ fault' = "none") =>
       LET p == held[last'.s]
       IN /\ held' = held /\ oheld' = oheld
          /\ \A f \in DOMAIN heap[p] \ ClearedFields :
               heap'[p][f] = heap[p][f]
          /\ \A b \in ClearedStrings(heap[p]) :
               /\ IsLive(heap', b)
               /\ Len(heap'[b].bytes) = Len(heap[b].bytes)
               /\ StrOf(heap'[b].bytes) = <<>>
               /\ \A k \in 2..Len(heap[b].bytes) :
                    heap'[b].bytes[k] = heap[b].bytes[k]
          /\ \A a \in Addr \ ({p} \cup ClearedStrings(heap[p])) :
               heap'[a] = heap[a]]_vars

\* opdis_insn_clear has just reset a fixed-size Instruction that had an
\* operand, an accessor, a mnemonic and a comment, and the comment is still
\* there
C22_Witness ==
  /\ last.op = "insn_clear" /\ last.n = 0 /\ fault = "none"
  /\ Insn(1).fixed_size = 1
  /\ hist[1].adds # <<>>
  /\ hist[1].cmts # <<>> /\ Text(Insn(1).comment) # <<>>

\* the string buffers of a fixed-size Instruction made with capacities a and
\* mn, and the size each was allocated with
FixedBuffers(a, mn) ==
  [ascii |-> a, prefixes |-> PREFIX_SIZE(mn), mnemonic |-> mn, comment |-> a]

\* C23: from opdis_insn_alloc_fixed to opdis_insn_free, whatever setters,
\* appends, opdis_insn_add_operand and opdis_insn_clear are called, the
\* ascii, prefixes, mnemonic and comment pointers of the Instruction do not
\* change and each present buffer stays allocated with the size it was made
\* with; the same for the ascii buffer of an Operand from
\* opdis_op_alloc_fixed that the caller holds.
C23_FixedBuffersStay ==
  [][/\ (hist[1].origin = "fixed" /\ hist'[1].origin = "fixed") =>
          \A f \in DOMAIN FixedBuffers(0, 0) :
            /\ heap'[held'[1]][f] = heap[held[1]][f]
            /\ heap[held[1]][f] # NULL =>
                 /\ IsLive(heap', heap[held[1]][f])
                 /\ Len(heap'[heap[held[1]][f]].bytes) =
                      FixedBuffers(hist[1].a, hist[1].mn)[f]
     /\ \A k \in OSlot :
          (ohist[k].origin = "fixed" /\ ohist'[k].origin = "fixed") =>
            /\ heap'[oheld'[k]].ascii = heap[oheld[k]].ascii
            /\ IsLive(heap', heap[oheld[k]].ascii)
            /\ Len(heap'[heap[oheld[k]].ascii].bytes) = ohist[k].o]_vars

\* opdis_insn_clear has just reset a fixed-size Instruction in which an
\* ascii text, a prefix and a comment had been stored: the bytes after the
\* first are still in the buffers made at construction
C23_Witness ==
  /\ hist[1].origin = "fixed" /\ last.op = "insn_clear" /\ fault = "none"
  /\ hist[1].cmts # <<>>
  /\ Len(heap[Insn(1).ascii].bytes) = hist[1].a
  /\ heap[Insn(1).ascii].bytes[2] = 4
  /\ heap[Insn(1).prefixes].bytes[2] = 4

\* C24: in every Instruction the caller holds, alloc_operands is at most the
\* number of slots of its operand array (0 when it has none), and
\* opdis_insn_add_operand never stores outside the array.
C24_AllocWithinArray ==
  /\ \A s \in Slot :
       (held[s] # NULL /\ fault = "none") =>
         Insn(s).alloc_operands <= Len(Slots(Insn(s)))
  /\ last.op = "insn_add_operand" => fault = "none"

\* the string at p is present, allocated and of at least n bytes
HasRoom(p, n) == p # NULL /\ IsLive(heap, p) /\ Len(heap[p].bytes) >= n

\* the Operands the program can reach: those the caller holds and those in
\* the first num_operands slots of the Instructions it holds
ReachableOps ==
  ({oheld[k] : k \in OSlot}
     \cup UNION {{Slots(Insn(s))[k] :
                    k \in 1..MinOf(Insn(s).num_operands, Len(Slots(Insn(s))))} :
                  s \in {t \in Slot : held[t] # NULL}})
    \ {NULL}

\* C25: every Instruction with fixed_size set has its ascii, mnemonic,
\* prefixes and comment buffers present and at least as large as the capacity
\* the mutators use for them (ascii_sz, mnemonic_sz, 4 * mnemonic_sz,
\* ascii_sz), and every Operand with fixed_size set has an ascii buffer of at
\* least ascii_sz bytes; duplicates of fixed-size objects and Instructions
\* whose comment could not be allocated included.
C25_FixedBuffersPresent ==
  fault = "none" =>
    /\ \A s \in Slot :
         (held[s] # NULL /\ Insn(s).fixed_size # 0) =>
           \A f \in DOMAIN FixedBuffers(0, 0) :
             HasRoom(Insn(s)[f],
                     FixedBuffers(Insn(s).ascii_sz, Insn(s).mnemonic_sz)[f])
    /\ \A o \in ReachableOps :
         (IsLive(heap, o) /\ heap[o].fixed_size # 0) =>
           HasRoom(heap[o].ascii, heap[o].ascii_sz)

\* the room left in the fixed buffer at p of recorded capacity cap, as
\* opdis_insn_add_prefix and opdis_insn_add_comment compute it, before it is
\* stored in an unsigned int
Remaining(h, p, cap) == cap - StrLen(h[p].bytes)

\* C26: opdis_insn_alloc_fixed and opdis_op_alloc_fixed record in ascii_sz
\* and mnemonic_sz the capacity that was asked for, whatever it is; and the
\* length bounds the fixed-size mutators compute from them (capacity - 1 in
\* the setters, remaining - 1 and remaining - 2 in opdis_insn_add_prefix and
\* opdis_insn_add_comment) are never negative.
C26_NoWrapAround ==
  [][/\ (last'.op = "insn_alloc_fixed" /\ last'.ret # NULL) =>
          /\ heap'[last'.ret].ascii_sz = hist'[last'.s].a
          /\ heap'[last'.ret].mnemonic_sz = hist'[last'.s].mn
     /\ (last'.op = "op_alloc_fixed" /\ last'.ret # NULL) =>
          heap'[last'.ret].ascii_sz = ohist'[last'.s].o
     /\ (last'.op = "insn_set_ascii" /\ Insn(last'.s).fixed_size # 0) =>
          Insn(last'.s).ascii_sz - 1 >= 0
     /\ (last'.op = "insn_set_mnemonic" /\ Insn(last'.s).fixed_size # 0) =>
          Insn(last'.s).mnemonic_sz - 1 >= 0
     /\ (last'.op = "op_set_ascii" /\ heap[oheld[last'.s]].fixed_size # 0) =>
          heap[oheld[last'.s]].ascii_sz - 1 >= 0
     /\ (last'.op = "insn_add_prefix" /\ Insn(last'.s).fixed_size # 0
         /\ IsLive(heap, Insn(last'.s).prefixes)) =>
          Remaining(heap, Insn(last'.s).prefixes,
                    PREFIX_SIZE(Insn(last'.s).mnemonic_sz)) - 2 >= 0
     /\ (last'.op = "insn_add_comment" /\ Insn(last'.s).fixed_size # 0
         /\ IsLive(heap, Insn(last'.s).comment)) =>
          Remaining(heap, Insn(last'.s).comment, Insn(last'.s).ascii_sz) - 2
            >= 0]_vars

====
